---- MODULE Spec2Model ----
(***************************************************************************)
(* A model of headshots.py: the roster extractor (get_student_numbers),    *)
(* the archive matcher (find_matching_images), the sheet namer             *)
(* (extract_pdf_name), the grid composer (create_pdf) and the per-sheet    *)
(* loop of the script's main block.                                        *)
(*                                                                         *)
(* Python strings are sequences of one-character strings.  A spreadsheet   *)
(* cell is a record [t |-> "text", v |-> <<chars>>] or                     *)
(* [t |-> "num", v |-> n] (the float n.0), or [t |-> "none"] for a cell    *)
(* that lies outside the sheet (cell_value raises IndexError).             *)
(***************************************************************************)
EXTENDS Integers, Sequences, FiniteSets, TLC

VARIABLES
    pc,               \* position of the running function / script
    nrows,            \* sheet.nrows of the sheet being scanned
    row_idx,          \* loop variable of get_student_numbers
    cells,            \* column-0 cells read so far from rows 7.. (in row order)
    student_numbers,  \* the list built by get_student_numbers / given to the matcher
    zip_files,        \* z.namelist()
    num_idx,          \* position of `num` in student_numbers (matcher's outer loop)
    images,           \* the dict of find_matching_images, in insertion order
    image_list,       \* list(image_data.items()) of create_pdf
    i,                \* create_pdf: outer loop variable (first index of the page)
    j,                \* create_pdf: inner loop variable (index within the page)
    pages,            \* len(pdf.pages)
    placed,           \* images drawn in the document: [k, page, x, y]
    labels,           \* label text drawn in the document: [k, page, x, y]
    errors,           \* indices of images whose processing printed "Error processing"
    temp_files,       \* indices k of temp_<k>.jpg files present on disk
    out_written,      \* whether pdf.output(output_pdf) wrote the file
    save_cleans_up,   \* whether the installed Image.save removes the file of a failed save
    workbook,         \* the sheets of the workbook, in sheet order
    sheet_idx,        \* position of the main loop in workbook.sheet_names()
    files,            \* PDF files on disk: [name, sheet, placed, labels]
    matched,          \* sheets for which find_matching_images was run
    composed          \* sheets for which create_pdf was run

roster_vars == <<nrows, row_idx, cells>>
match_vars  == <<zip_files, num_idx>>
pdf_vars    == <<image_list, i, j, pages, placed, labels, errors, temp_files, out_written,
                 save_cleans_up>>
main_vars   == <<workbook, sheet_idx, files, matched, composed>>
vars == <<pc, roster_vars, student_numbers, match_vars, images, pdf_vars, main_vars>>

----------------------------------------------------------------------------
(* Bounds of the model *)
MaxStrLen == 3
MaxDataRows == 1
MaxRoster == 2
MaxZip == 3
MaxImages == 33
PatternLen == 2
MaxSheets == 2

----------------------------------------------------------------------------
(* Python string primitives *)

Range(s) == {s[n] : n \in 1..Len(s)}

Whitespace == {" "}

RECURSIVE RStrip(_, _)
\* str.rstrip(chars): drop every trailing character that is in chars
RStrip(s, chars) ==
    IF s # <<>> /\ s[Len(s)] \in chars
    THEN RStrip(SubSeq(s, 1, Len(s) - 1), chars)
    ELSE s

RECURSIVE LStrip(_, _)
LStrip(s, chars) ==
    IF s # <<>> /\ s[1] \in chars
    THEN LStrip(Tail(s), chars)
    ELSE s

\* str.strip(): whitespace removed at both ends
Strip(s) == LStrip(RStrip(s, Whitespace), Whitespace)

DigitChars == <<"0", "1", "2", "3", "4", "5", "6", "7", "8", "9">>

RECURSIVE Digits(_)
Digits(n) ==
    IF n < 10 THEN <<DigitChars[n + 1]>>
    ELSE Digits(n \div 10) \o <<DigitChars[(n % 10) + 1]>>

\* str(value): a text cell is itself, the float n.0 prints as "n.0"
PyStr(cell) ==
    IF cell.t = "text" THEN cell.v ELSE Digits(cell.v) \o <<".", "0">>

\* truthiness of a cell value: '' and 0.0 are falsy
Truthy(cell) ==
    IF cell.t = "text" THEN cell.v # <<>> ELSE cell.v # 0

----------------------------------------------------------------------------
(* get_student_numbers *)

DATA_START_ROW == 7

\* a faulty variant: trailing zeros stripped whether or not the string holds a '.'
NormalizeNoDotTest(cell) ==
    RStrip(RStrip(Strip(PyStr(cell)), {"0"}), {"."})

\* lines 38-40
Normalize(cell) ==
    LET s == Strip(PyStr(cell))
    IN  IF "." \in Range(s) THEN RStrip(RStrip(s, {"0"}), {"."}) ELSE s

\* lines 36-41: the loop body for one row
AppendRow(nums, cell) ==
    IF Truthy(cell) THEN Append(nums, Normalize(cell)) ELSE nums

RECURSIVE GetStudentNumbers(_)
\* the whole function, for the column-0 cells of rows 7..nrows-1
GetStudentNumbers(col) ==
    IF col = <<>> THEN <<>>
    ELSE AppendRow(GetStudentNumbers(SubSeq(col, 1, Len(col) - 1)), col[Len(col)])

Chars == {"1", "0", ".", " "}

RECURSIVE StringsUpTo(_)
StringsUpTo(n) ==
    IF n = 0 THEN {<<>>}
    ELSE LET shorter == StringsUpTo(n - 1)
         IN  shorter \cup {Append(s, c) : s \in shorter, c \in Chars}

NumValues == {0, 7, 10, 120, 12300, 12345}

CellValues ==
    {[t |-> "text", v |-> s] : s \in StringsUpTo(MaxStrLen)}
      \cup {[t |-> "num", v |-> n] : n \in NumValues}

InitRoster ==
    /\ pc = "scan"
    /\ nrows \in 0..(DATA_START_ROW + MaxDataRows)
    /\ row_idx = DATA_START_ROW
    /\ cells = <<>>
    /\ student_numbers = <<>>
    /\ zip_files = <<>> /\ num_idx = 0 /\ images = <<>>
    /\ image_list = <<>> /\ i = 0 /\ j = 0 /\ pages = 0
    /\ placed = {} /\ labels = {} /\ errors = {} /\ temp_files = {}
    /\ out_written = FALSE /\ save_cleans_up = TRUE
    /\ workbook = <<>> /\ sheet_idx = 0 /\ files = {}
    /\ matched = {} /\ composed = {}

\* one iteration of `for row_idx in range(7, sheet.nrows)`
ReadRow ==
    /\ pc = "scan"
    /\ row_idx < nrows
    /\ \E cell \in CellValues :
          /\ cells' = Append(cells, cell)
          /\ student_numbers' = AppendRow(student_numbers, cell)
    /\ row_idx' = row_idx + 1
    /\ UNCHANGED <<pc, nrows, match_vars, images, pdf_vars, main_vars>>

\* `return student_numbers`
ReturnNumbers ==
    /\ pc = "scan"
    /\ row_idx >= nrows
    /\ pc' = "returned"
    /\ UNCHANGED <<roster_vars, student_numbers, match_vars, images, pdf_vars, main_vars>>

NextRoster == ReadRow \/ ReturnNumbers

SpecRoster == InitRoster /\ [][NextRoster]_vars

----------------------------------------------------------------------------
(* find_matching_images *)

UpperCase == <<"A", "B", "C", "D", "E", "F", "G", "H", "I", "J", "K", "L", "M",
               "N", "O", "P", "Q", "R", "S", "T", "U", "V", "W", "X", "Y", "Z">>
LowerCase == <<"a", "b", "c", "d", "e", "f", "g", "h", "i", "j", "k", "l", "m",
               "n", "o", "p", "q", "r", "s", "t", "u", "v", "w", "x", "y", "z">>

LowerChar(c) ==
    IF \E n \in 1..26 : UpperCase[n] = c
    THEN LowerCase[CHOOSE n \in 1..26 : UpperCase[n] = c]
    ELSE c

\* str.lower()
Lower(s) == [n \in 1..Len(s) |-> LowerChar(s[n])]

\* str.endswith(suffix)
EndsWith(s, suffix) ==
    /\ Len(s) >= Len(suffix)
    /\ SubSeq(s, Len(s) - Len(suffix) + 1, Len(s)) = suffix

\* `sub in s`
Contains(s, sub) ==
    \E a \in 0..(Len(s) - Len(sub)) : SubSeq(s, a + 1, a + Len(sub)) = sub

ImageSuffixes == {<<".", "p", "n", "g">>, <<".", "j", "p", "g">>, <<".", "j", "p", "e", "g">>}

\* a faulty variant: the extension compared without lower-casing the name
IsMatchCaseSensitive(num, f) ==
    Contains(f, num) /\ \E suffix \in ImageSuffixes : EndsWith(f, suffix)

\* line 56: num in f and f.lower().endswith((".png", ".jpg", ".jpeg"))
IsMatch(num, f) ==
    Contains(f, num) /\ \E suffix \in ImageSuffixes : EndsWith(Lower(f), suffix)

\* The entries an archive of the model can hold, and what their bytes are:
\* "image" decodes, saves and places; "corrupt" does not decode; "rgba" decodes
\* but cannot be saved as a JPEG; "unplaceable" is refused by pdf.image.
N_A == <<"A", "(", "1", "1", ")", ".", "j", "p", "g">>
N_B == <<"B", "(", "2", "2", ")", ".", "P", "N", "G">>
N_C == <<"C", "(", "1", "1", "2", ")", ".", "j", "p", "e", "g">>
N_D == <<"D", "(", "1", "1", ")", ".", "t", "x", "t">>
N_E == <<"E", "1", "1", ".", "J", "p", "g">>
N_F == <<"j", "p", "g", "(", "2", "2", ")">>

ArchiveNames == {N_A, N_B, N_C, N_D, N_E, N_F}

BlobKind(f) ==
    CASE f = N_A -> "image"
      [] f = N_B -> "image"
      [] f = N_C -> "corrupt"
      [] f = N_D -> "corrupt"
      [] f = N_E -> "image"
      [] OTHER   -> "corrupt"

\* z.read(name): the bytes stored under that name
ZipRead(f) == [of |-> f, kind |-> BlobKind(f)]

\* A dict is the sequence of its items in insertion order, keys distinct.
Keys(d) == {d[n].name : n \in 1..Len(d)}

\* d[k] = v: a new key is appended, an existing key keeps its place
DictSet(d, k, v) ==
    IF k \in Keys(d)
    THEN [n \in 1..Len(d) |-> IF d[n].name = k THEN [name |-> k, bytes |-> v] ELSE d[n]]
    ELSE Append(d, [name |-> k, bytes |-> v])

RECURSIVE ReadAll(_, _)
\* lines 58-61: for matched_file in matched_files: images[matched_file] = z.read(...)
ReadAll(d, matched_files) ==
    IF matched_files = <<>> THEN d
    ELSE ReadAll(DictSet(d, Head(matched_files), ZipRead(Head(matched_files))),
                 Tail(matched_files))

\* lines 53-61: the body of `for num in student_numbers`
MatchNumber(d, num, names) ==
    LET Test(f) == IsMatch(num, f)
    IN  ReadAll(d, SelectSeq(names, Test))

RECURSIVE FindMatchingImages(_, _)
\* the whole function: the dict after every number was tried
FindMatchingImages(nums, names) ==
    IF nums = <<>> THEN <<>>
    ELSE MatchNumber(FindMatchingImages(SubSeq(nums, 1, Len(nums) - 1), names),
                     nums[Len(nums)], names)

RosterNumbers ==
    {<<"1", "1">>, <<"2", "2">>, <<"1", "1", "2">>, <<>>, <<"j", "p", "g">>}

RECURSIVE SeqsUpTo(_, _)
\* the sequences over S of length at most n
SeqsUpTo(S, n) ==
    IF n = 0 THEN {<<>>}
    ELSE LET shorter == SeqsUpTo(S, n - 1)
         IN  shorter \cup {Append(q, x) : q \in shorter, x \in S}

\* name lists without a repeated name
NameLists == {q \in SeqsUpTo(ArchiveNames, MaxZip) : Cardinality(Range(q)) = Len(q)}

InitMatch ==
    /\ pc = "zip_open"
    /\ student_numbers \in SeqsUpTo(RosterNumbers, MaxRoster)
    /\ zip_files \in NameLists
    /\ num_idx = 0
    /\ images = <<>>
    /\ nrows = 0 /\ row_idx = 0 /\ cells = <<>>
    /\ image_list = <<>> /\ i = 0 /\ j = 0 /\ pages = 0
    /\ placed = {} /\ labels = {} /\ errors = {} /\ temp_files = {}
    /\ out_written = FALSE /\ save_cleans_up = TRUE
    /\ workbook = <<>> /\ sheet_idx = 0 /\ files = {}
    /\ matched = {} /\ composed = {}

\* one iteration of `for num in student_numbers`
MatchNext ==
    /\ pc = "zip_open"
    /\ num_idx < Len(student_numbers)
    /\ images' = MatchNumber(images, student_numbers[num_idx + 1], zip_files)
    /\ num_idx' = num_idx + 1
    /\ UNCHANGED <<pc, roster_vars, student_numbers, zip_files, pdf_vars, main_vars>>

\* the `with` block ends and `return images`
ReturnImages ==
    /\ pc = "zip_open"
    /\ num_idx >= Len(student_numbers)
    /\ pc' = "returned"
    /\ UNCHANGED <<roster_vars, student_numbers, match_vars, images, pdf_vars, main_vars>>

NextMatch == MatchNext \/ ReturnImages

SpecMatch == InitMatch /\ [][NextMatch]_vars

----------------------------------------------------------------------------
(* create_pdf *)

IMAGES_PER_ROW == 4
ROWS_PER_PAGE == 4
IMAGES_PER_PAGE == IMAGES_PER_ROW * ROWS_PER_PAGE
IMAGE_WIDTH == 40
IMAGE_HEIGHT == 50
MARGIN_X == 10
MARGIN_Y == 10
SPACING_X == 10
SPACING_Y == 10
TEXT_HEIGHT == 6

\* lines 88-89
CellRow(jj) == jj \div IMAGES_PER_ROW
CellCol(jj) == jj % IMAGES_PER_ROW

\* line 92
CellX(col) == MARGIN_X + col * (IMAGE_WIDTH + SPACING_X)

\* a faulty variant: room for one line of label text instead of two
CellYOneTextLine(row) == MARGIN_Y + row * (IMAGE_HEIGHT + SPACING_Y + TEXT_HEIGHT)

\* line 93
CellY(row) == MARGIN_Y + row * (IMAGE_HEIGHT + SPACING_Y + TEXT_HEIGHT * 2)

\* the positions of character c in s
Positions(s, c) == {n \in 1..Len(s) : s[n] = c}

Max(S) == CHOOSE n \in S : \A m \in S : m <= n

\* os.path.splitext(filename)[0]: the name up to its last dot, unless only dots
\* precede that dot (the names of the model hold no path separator)
remove_file_extension(filename) ==
    LET dots == Positions(filename, ".")
    IN  IF dots = {} THEN filename
        ELSE LET d == Max(dots)
             IN  IF \E n \in 1..(d - 1) : filename[n] # "."
                 THEN SubSeq(filename, 1, d - 1)
                 ELSE filename

\* label.rsplit("(", 1): one part when the label holds no "(", else two
RSplitParen(label) ==
    LET parens == Positions(label, "(")
    IN  IF parens = {} THEN <<label>>
        ELSE <<SubSeq(label, 1, Max(parens) - 1),
               SubSeq(label, Max(parens) + 1, Len(label))>>

\* The document and the disk while create_pdf runs:
\* [pages, placed, labels, errors, temp].
NewPdf(temp) ==
    [pages |-> 0, placed |-> {}, labels |-> {}, errors |-> {}, temp |-> temp]

\* line 81: pdf.add_page()
AddPage(st) == [st EXCEPT !.pages = @ + 1]

\* lines 87-124: the body of the inner loop for image jj of the page starting
\* at ii.  An exception raised anywhere in the try block ends the block and is
\* printed; what was done before it stays done.  FPDF's automatic page break
\* does not fire: the lowest label line ends at 10 + 3*72 + 50 + 4 + 4 = 284,
\* above the A4 trigger of 297 - 10.
PlaceImage(st, list, ii, jj, cleans) ==
    LET k     == ii + jj
        entry == list[k + 1]
        x     == CellX(CellCol(jj))
        y     == CellY(CellRow(jj))
        kind  == entry.bytes.kind
        failed == [st EXCEPT !.errors = @ \cup {k}]
        saved  == [st EXCEPT !.temp = @ \cup {k}]
        drawn  == [saved EXCEPT !.placed = @ \cup {[k |-> k, page |-> st.pages,
                                                    x |-> x, y |-> y]}]
        parts == RSplitParen(remove_file_extension(entry.name))
    IN  CASE kind = "corrupt" ->        \* Image.open raises
               failed
          [] kind = "unsavable" ->      \* img.save raises
               IF cleans THEN failed
               ELSE [failed EXCEPT !.temp = @ \cup {k}]
          [] kind = "unplaceable" ->    \* pdf.image raises
               [saved EXCEPT !.errors = @ \cup {k}]
          [] OTHER ->
               IF Len(parts) # 2
               THEN [drawn EXCEPT !.errors = @ \cup {k}]   \* the unpacking raises
               ELSE [drawn EXCEPT
                       !.labels = @ \cup {[k |-> k, page |-> st.pages, x |-> x,
                                           y_name |-> y + IMAGE_HEIGHT,
                                           y_number |-> y + IMAGE_HEIGHT + (TEXT_HEIGHT - 2),
                                           name |-> Strip(parts[1]),
                                           number |-> RStrip(parts[2], {")"})]},
                       !.temp = @ \ {k}]                   \* os.remove(img_path)

\* line 84: len(image_list[i : i + IMAGES_PER_PAGE])
PageLen(list, ii) ==
    IF Len(list) - ii < IMAGES_PER_PAGE THEN Len(list) - ii ELSE IMAGES_PER_PAGE

RECURSIVE ComposePage(_, _, _, _, _)
\* the inner loop, from image jj of the page on
ComposePage(st, list, ii, jj, cleans) ==
    IF jj >= PageLen(list, ii) THEN st
    ELSE ComposePage(PlaceImage(st, list, ii, jj, cleans), list, ii, jj + 1, cleans)

RECURSIVE ComposePages(_, _, _, _)
\* the outer loop, from the page starting at ii on
ComposePages(st, list, ii, cleans) ==
    IF ii >= Len(list) THEN st
    ELSE ComposePages(ComposePage(AddPage(st), list, ii, 0, cleans),
                      list, ii + IMAGES_PER_PAGE, cleans)

\* line 126
WritesOutput(st) == st.pages > 0

\* The image lists of the model: entry k is named k(7).jpg, or k.jpg when its
\* label is to hold no parenthesis, and entries repeat a pattern of kinds.
EntryKinds ==
    {[kind |-> "image", paren |-> TRUE], [kind |-> "image", paren |-> FALSE],
     [kind |-> "corrupt", paren |-> TRUE], [kind |-> "unsavable", paren |-> TRUE],
     [kind |-> "unplaceable", paren |-> TRUE]}

EntryName(k, paren) ==
    Digits(k) \o (IF paren THEN <<"(", "7", ")">> ELSE <<>>) \o <<".", "j", "p", "g">>

MakeEntry(k, ek) ==
    [name |-> EntryName(k, ek.paren),
     bytes |-> [of |-> EntryName(k, ek.paren), kind |-> ek.kind]]

MakeList(n, pattern) ==
    [m \in 1..n |-> MakeEntry(m - 1, pattern[((m - 1) % PatternLen) + 1])]

PdfState == [pages |-> pages, placed |-> placed, labels |-> labels,
             errors |-> errors, temp |-> temp_files]

InitPdf ==
    /\ pc = "page"
    /\ \E n \in 0..MaxImages : \E pattern \in [1..PatternLen -> EntryKinds] :
          image_list = MakeList(n, pattern)
    /\ save_cleans_up \in BOOLEAN
    /\ i = 0 /\ j = 0 /\ pages = 0
    /\ placed = {} /\ labels = {} /\ errors = {} /\ temp_files = {}
    /\ out_written = FALSE
    /\ nrows = 0 /\ row_idx = 0 /\ cells = <<>> /\ student_numbers = <<>>
    /\ zip_files = <<>> /\ num_idx = 0 /\ images = <<>>
    /\ workbook = <<>> /\ sheet_idx = 0 /\ files = {}
    /\ matched = {} /\ composed = {}

SetPdfState(st) ==
    /\ pages' = st.pages
    /\ placed' = st.placed
    /\ labels' = st.labels
    /\ errors' = st.errors
    /\ temp_files' = st.temp

\* an iteration of the outer loop begins: pdf.add_page()
StartPage ==
    /\ pc = "page"
    /\ i < Len(image_list)
    /\ SetPdfState(AddPage(PdfState))
    /\ j' = 0
    /\ pc' = "image"
    /\ UNCHANGED <<roster_vars, student_numbers, match_vars, images, main_vars,
                   image_list, i, out_written, save_cleans_up>>

\* one iteration of the inner loop
ProcessImage ==
    /\ pc = "image"
    /\ j < PageLen(image_list, i)
    /\ SetPdfState(PlaceImage(PdfState, image_list, i, j, save_cleans_up))
    /\ j' = j + 1
    /\ UNCHANGED <<pc, roster_vars, student_numbers, match_vars, images, main_vars,
                   image_list, i, out_written, save_cleans_up>>

\* the inner loop is exhausted: the outer loop steps by IMAGES_PER_PAGE
EndPage ==
    /\ pc = "image"
    /\ j >= PageLen(image_list, i)
    /\ i' = i + IMAGES_PER_PAGE
    /\ pc' = "page"
    /\ UNCHANGED <<roster_vars, student_numbers, match_vars, images, main_vars,
                   image_list, j, pages, placed, labels, errors, temp_files,
                   out_written, save_cleans_up>>

\* lines 126-130
Output ==
    /\ pc = "page"
    /\ i >= Len(image_list)
    /\ out_written' = WritesOutput(PdfState)
    /\ pc' = "done"
    /\ UNCHANGED <<roster_vars, student_numbers, match_vars, images, main_vars,
                   image_list, i, j, pages, placed, labels, errors, temp_files,
                   save_cleans_up>>

NextPdf == StartPage \/ ProcessImage \/ EndPage \/ Output

SpecPdf == InitPdf /\ [][NextPdf]_vars

----------------------------------------------------------------------------
(* extract_pdf_name and the main block *)

Min(S) == CHOOSE n \in S : \A m \in S : n <= m

RECURSIVE Split(_, _)
\* str.split(sep) for a one-character separator
Split(s, sep) ==
    LET at == Positions(s, sep)
    IN  IF at = {} THEN <<s>>
        ELSE <<SubSeq(s, 1, Min(at) - 1)>> \o Split(SubSeq(s, Min(at) + 1, Len(s)), sep)

\* str.replace(c, '')
Remove(s, c) ==
    LET Keep(ch) == ch # c
    IN  SelectSeq(s, Keep)

UNKNOWN == <<"U", "n", "k", "n", "o", "w", "n">>

\* lines 135-140, for a string argument
extract_pdf_name(cell_value) ==
    LET parts == Split(cell_value, ",")
    IN  IF Len(parts) >= 2
        THEN Strip(parts[1]) \o <<"_">> \o Remove(Strip(parts[2]), ":")
        ELSE UNKNOWN

\* line 171: sheet.cell_value(2, 1) raises IndexError outside the sheet, and
\* extract_pdf_name raises AttributeError on a value that is not a string
HeaderRaises(header) == header.t # "text"

\* line 172: `not pdf_name`
IsFalsy(pdf_name) == pdf_name = <<>>

\* line 182
PdfFileName(pdf_name) == pdf_name \o <<".", "p", "d", "f">>

Text(s) == [t |-> "text", v |-> s]

Headers ==
    {[t |-> "none"],
     [t |-> "num", v |-> 3],
     Text(<<>>),
     Text(<<"M", "o", "n">>),
     Text(<<"M", "o", "n", ",", " ", "1", "4", ":", "0", "0", ",", " ", "T", "3">>),
     Text(<<"M", "o", "n", ",", "1", "4", ":", "0", "0">>),
     Text(<<"T", "u", "e", ",", " ", "0", "9", ":", "0", "0">>)}

Columns ==
    {<<>>,
     <<Text(<<"1", "1">>)>>,
     <<[t |-> "num", v |-> 22]>>,
     <<Text(<<"1", "1", "2">>)>>,
     <<Text(<<"9", "9">>), Text(<<" ">>)>>}

\* a sheet: its cell B3 and the column-0 cells of its rows 7..nrows-1
Sheets == {[header |-> h, col |-> c] : h \in Headers, c \in Columns}

TheArchive == <<N_A, N_B, N_C, N_D, N_E, N_F>>

Init ==
    /\ pc = "main"
    /\ workbook \in SeqsUpTo(Sheets, MaxSheets)
    /\ zip_files = TheArchive
    /\ save_cleans_up \in BOOLEAN
    /\ sheet_idx = 0
    /\ files = {} /\ matched = {} /\ composed = {}
    /\ nrows = 0 /\ row_idx = 0 /\ cells = <<>> /\ student_numbers = <<>>
    /\ num_idx = 0 /\ images = <<>>
    /\ image_list = <<>> /\ i = 0 /\ j = 0 /\ pages = 0
    /\ placed = {} /\ labels = {} /\ errors = {} /\ temp_files = {}
    /\ out_written = FALSE

\* lines 163-186: one iteration of `for sheet_name in workbook.sheet_names()`.
\* There is no try block in the loop: an exception ends the script.
ProcessSheet ==
    /\ pc = "main"
    /\ sheet_idx < Len(workbook)
    /\ LET s        == sheet_idx + 1
           sheet    == workbook[s]
           nums     == GetStudentNumbers(sheet.col)
           pdf_name == extract_pdf_name(sheet.header.v)
           found    == FindMatchingImages(nums, zip_files)
           st       == ComposePages(NewPdf(temp_files), found, 0, save_cleans_up)
           pdf_file == [name |-> PdfFileName(pdf_name), sheet |-> s,
                        placed |-> st.placed, labels |-> st.labels]
       IN  /\ student_numbers' = nums
           /\ cells' = sheet.col
           /\ IF HeaderRaises(sheet.header)
              THEN /\ pc' = "crashed"
                   /\ UNCHANGED <<sheet_idx, files, matched, composed, images,
                                  image_list, pages, placed, labels, errors,
                                  temp_files, out_written>>
              ELSE IF IsFalsy(pdf_name)
              THEN /\ sheet_idx' = s
                   /\ UNCHANGED <<pc, files, matched, composed, images,
                                  image_list, pages, placed, labels, errors,
                                  temp_files, out_written>>
              ELSE /\ images' = found
                   /\ matched' = matched \cup {s}
                   /\ IF found # <<>>
                      THEN /\ composed' = composed \cup {s}
                           /\ image_list' = found
                           /\ SetPdfState(st)
                           /\ IF WritesOutput(st)
                              THEN \E write_ok \in BOOLEAN :
                                     \* pdf.output raises when the file cannot be written
                                     IF write_ok
                                     THEN /\ files' = {f \in files : f.name # pdf_file.name}
                                                         \cup {pdf_file}
                                          /\ out_written' = TRUE
                                          /\ sheet_idx' = s
                                          /\ pc' = pc
                                     ELSE /\ pc' = "crashed"
                                          /\ UNCHANGED <<files, out_written, sheet_idx>>
                              ELSE /\ sheet_idx' = s
                                   /\ UNCHANGED <<pc, files, out_written>>
                      ELSE /\ sheet_idx' = s
                           /\ UNCHANGED <<pc, files, composed, image_list, pages, placed,
                                          labels, errors, temp_files, out_written>>
    /\ UNCHANGED <<nrows, row_idx, match_vars, i, j, save_cleans_up, workbook>>

\* the loop is exhausted and the script ends
Finish ==
    /\ pc = "main"
    /\ sheet_idx >= Len(workbook)
    /\ pc' = "done"
    /\ UNCHANGED <<roster_vars, student_numbers, match_vars, images, pdf_vars, main_vars>>

Next == ProcessSheet \/ Finish

Spec == Init /\ [][Next]_vars

----------------------------------------------------------------------------
(* Properties of get_student_numbers, checked under SpecRoster *)

\* t is s without its leading and trailing whitespace
IsStripOf(t, s) ==
    /\ \E a \in 0..Len(s) : \E b \in 0..(Len(s) - a) :
          /\ t = SubSeq(s, a + 1, Len(s) - b)
          /\ \A n \in 1..a : s[n] \in Whitespace
          /\ \A n \in (Len(s) - b + 1)..Len(s) : s[n] \in Whitespace
    /\ t # <<>> => (t[1] \notin Whitespace /\ t[Len(t)] \notin Whitespace)

\* t is s without its trailing run of the character c
IsRStripOf(t, s, c) ==
    /\ \E a \in 0..Len(s) :
          /\ t = SubSeq(s, 1, a)
          /\ \A n \in (a + 1)..Len(s) : s[n] = c
    /\ t # <<>> => t[Len(t)] # c

\* r is the student number the roster extractor is to produce for a cell
IsStudentNumberOf(r, cell) ==
    LET s == PyStr(cell)
        infixes == {SubSeq(s, a, b) : a \in 1..(Len(s) + 1), b \in 0..Len(s)}
    IN  \E t1 \in infixes :
          /\ IsStripOf(t1, s)
          /\ IF \E n \in 1..Len(t1) : t1[n] = "."
             THEN \E t2 \in infixes :
                    /\ IsRStripOf(t2, t1, "0")
                    /\ IsRStripOf(r, t2, ".")
             ELSE r = t1

TruthyCells == SelectSeq(cells, Truthy)

\* the result the roster extractor returned for each truthy cell printing as str
ResultsFor(str) ==
    {student_numbers[n] : n \in {m \in 1..Len(TruthyCells) : PyStr(TruthyCells[m]) = str}}

\* every truthy column-0 cell yields, in row order, its value as a string with
\* surrounding whitespace stripped and, only when that string holds a '.', its
\* trailing '0' characters and then its trailing '.' removed
NormalizationRule ==
    /\ Len(student_numbers) = Len(TruthyCells)
    /\ \A n \in 1..Len(student_numbers) :
          IsStudentNumberOf(student_numbers[n], TruthyCells[n])

\* C10 as stated: the rule, with "12345.0" giving "12345" and "12300.0"
\* giving "123"
CEx_C10_TrailingZerosDamaged ==
    /\ NormalizationRule
    /\ ResultsFor(<<"1", "2", "3", "4", "5", ".", "0">>) \subseteq {<<"1", "2", "3", "4", "5">>}
    /\ ResultsFor(<<"1", "2", "3", "0", "0", ".", "0">>) \subseteq {<<"1", "2", "3">>}

\* C10 as amended: the rule, with "12345.0" giving "12345" and "12300.0"
\* giving "12300": the zeros are stripped back to the '.' only, so the digits
\* before the '.' are never touched.
Thm_C10_Normalization ==
    /\ NormalizationRule
    /\ ResultsFor(<<"1", "2", "3", "4", "5", ".", "0">>) \subseteq {<<"1", "2", "3", "4", "5">>}
    /\ ResultsFor(<<"1", "2", "3", "0", "0", ".", "0">>) \subseteq {<<"1", "2", "3", "0", "0">>}

\* the float cell 12300.0 was read and returned as "12300"
Wit_C10_Normalization ==
    /\ pc = "returned"
    /\ cells = <<[t |-> "num", v |-> 12300]>>
    /\ student_numbers = <<<<"1", "2", "3", "0", "0">>>>

\* C6: every element of the returned sequence is a non-empty string
CEx_C6_NonEmptyNumbers ==
    \A n \in 1..Len(student_numbers) : student_numbers[n] # <<>>

----------------------------------------------------------------------------
(* Properties of find_matching_images, checked under SpecMatch *)

\* sub occurs in s, character by character, at some offset
IsSubstring(sub, s) ==
    \E a \in 0..Len(s) :
        /\ a + Len(sub) <= Len(s)
        /\ \A n \in 1..Len(sub) : s[a + n] = sub[n]

\* s ends, ignoring case, in .png, .jpg or .jpeg
HasImageExtension(s) ==
    \E ext \in ImageSuffixes :
        /\ Len(ext) <= Len(s)
        /\ \A n \in 1..Len(ext) : LowerChar(s[Len(s) - Len(ext) + n]) = ext[n]

\* the names the mapping is to hold once the numbers in S were tried
Expected(S) ==
    {f \in Range(zip_files) : HasImageExtension(f) /\ \E num \in S : IsSubstring(num, f)}

\* C7: a name is a key of the mapping iff some roster number is a substring of
\* it and it has an image extension (case-insensitively); every key occurs once
\* and carries the archive's bytes; the key set is a function of the set of
\* roster numbers (not of their order) and is empty when nothing matches.
Thm_C7_MatchIff ==
    /\ Keys(images) = Expected({student_numbers[n] : n \in 1..num_idx})
    /\ Cardinality(Keys(images)) = Len(images)
    /\ \A n \in 1..Len(images) : images[n].bytes = ZipRead(images[n].name)

\* a name matched by two roster numbers is stored once, an upper-case
\* extension is accepted, and a non-image entry holding the number is left out
Wit_C7_MatchIff ==
    /\ pc = "returned"
    /\ student_numbers = <<<<"1", "1", "2">>, <<"1", "1">>>>
    /\ zip_files = <<N_D, N_C, N_E>>
    /\ Keys(images) = {N_C, N_E}
    /\ Len(images) = 2

----------------------------------------------------------------------------
(* Properties of create_pdf, checked under SpecPdf *)

\* the indices of the images the loops have dealt with so far
Processed ==
    LET n == IF pc = "image" THEN i + j ELSE i
    IN  {k \in 0..(Len(image_list) - 1) : k < n}

\* the label of image k holds no "("
NoParen(k) == "(" \notin Range(image_list[k + 1].name)

\* C8: the image at position k of the list is assigned to page k div 16, row
\* (k mod 16) div 4 and column k mod 4, at x = 10 + col*50 and y = 10 + row*72,
\* whatever happened to the images before it, and ceil(n/16) pages are started.
Thm_C8_GridPosition ==
    /\ \A r \in placed \cup labels :
          /\ r.page = (r.k \div 16) + 1
          /\ r.x = 10 + (r.k % 4) * 50
          /\ LET y == 10 + ((r.k % 16) \div 4) * 72
             IN  IF r \in placed THEN r.y = y ELSE r.y_name = y + 50
    /\ \A k \in Processed :
          image_list[k + 1].bytes.kind = "image" => \E r \in placed : r.k = k
    /\ pc = "done" => pages = (Len(image_list) + 15) \div 16

\* 33 images, some of them skipped: 3 pages, the 33rd alone on page 3 at row 0,
\* column 0
Wit_C8_GridPosition ==
    /\ pc = "done"
    /\ Len(image_list) = 33
    /\ pages = 3
    /\ errors # {}
    /\ {r \in placed : r.page = 3} = {[k |-> 32, page |-> 3, x |-> 10, y |-> 10]}

\* C2: a file is written only when at least one image was successfully placed
CEx_C2_NoFileWithoutImage ==
    out_written => placed # {}

\* C3: no temporary image file is left once processing has moved past its image
CEx_C3_TempFilesRemoved ==
    temp_files = {}

\* C4: an image whose label holds no "(" leaves its grid cell blank: neither the
\* image nor label text is placed for it, and the error is logged
CEx_C4_MalformedLabelBlank ==
    \A k \in Processed :
        NoParen(k)
           => /\ k \in errors
              /\ ~ \E r \in placed \cup labels : r.k = k

----------------------------------------------------------------------------
(* Properties of the main block, checked under Spec *)

\* the sheets whose processing has begun
Reached == IF pc = "crashed" THEN sheet_idx + 1 ELSE sheet_idx

\* the header cell of sheet s is a string with fewer than two comma-separated parts
FewerThanTwoParts(s) ==
    /\ workbook[s].header.t = "text"
    /\ "," \notin Range(workbook[s].header.v)

\* C1: a sheet whose header cell has fewer than two comma-separated parts is
\* skipped: neither the matcher nor the composer runs for it and no file (no
\* Unknown.pdf) is written for it.
CEx_C1_UnknownSkipped ==
    \A s \in 1..Reached :
        FewerThanTwoParts(s)
           => /\ s \notin matched
              /\ s \notin composed
              /\ ~ \E f \in files : f.sheet = s

\* C5: whatever happened to the sheets before it, every sheet of the workbook
\* is reached: a run that has ended has begun every sheet.
CEx_C5_EverySheetReached ==
    pc \in {"done", "crashed"} => Reached = Len(workbook)

\* sheet s has a derivable name and a match set with a placeable image
ValidMatched(s) ==
    /\ workbook[s].header.t = "text"
    /\ "," \in Range(workbook[s].header.v)
    /\ \E f \in Range(zip_files) :
          /\ BlobKind(f) = "image"
          /\ "(" \in Range(f)
          /\ HasImageExtension(f)
          /\ \E num \in Range(GetStudentNumbers(workbook[s].col)) : IsSubstring(num, f)

\* C9: after a complete run every valid, matched sheet has its own PDF file,
\* holding the grid of that sheet.
CEx_C9_OnePdfPerSheet ==
    pc = "done" =>
        \A s \in 1..Len(workbook) :
            ValidMatched(s) => \E f \in files : f.sheet = s /\ f.placed # {}

====
